---- MODULE Spec2Model ----
(***************************************************************************)
(* A model of the finality-verification primitives of sp1-vector           *)
(* (primitives/src/lib.rs): verify_signature, confirm_ancestry,            *)
(* is_signed_by_supermajority, verify_justification,                       *)
(* compute_authority_set_commitment, decode_scale_compact_int and          *)
(* verify_encoded_validators.                                              *)
(***************************************************************************)
EXTENDS Integers, Sequences, FiniteSets, TLC

(***************************************************************************)
(* Bounds of the model.                                                    *)
(***************************************************************************)
\* longest justification.precommits
MaxPrecommits == 2
\* longest justification.valset_pubkeys
MaxValset == 2
\* longest justification.ancestries_encoded
MaxAncestries == 2
\* width of usize in bits (64 on the real targets, scaled down)
UsizeBits == 5
\* confirm_ancestry called on its own: the block hashes are 0..MaxHash
MaxHash == 3
\* longest pubkeys of compute_authority_set_commitment
MaxPubkeys == 3
\* most validators of verify_encoded_validators (encoded, and expected)
MaxValidators == 2

\* A B256 block hash is the string of the block's position in the tree of
\* blocks: the hash of its parent, then what the block adds.
\* block_hash of the justification, the hash of a child of that block and the
\* hash of a child of that child
BlockHash == <<0>>
ChildHash == <<0, 1>>
GrandChildHash == <<0, 1, 1>>
Hashes == {BlockHash, ChildHash, GrandChildHash}
\* "no entry": HashMap::get returns None
NoEntry == <<>>
\* Ed25519 public keys that decode to a curve point
Keys == {1, 2}
\* 32 bytes that VerificationKey::try_from rejects
InvalidKey == 0
\* the values the two u64 fields round and authority_set_id take
Rounds == {0, 1}
SetIds == {0, 1}
\* the values the B256 authority set commitment takes
SetHashes == {0, 1}

SeqsUpTo(S, n) == UNION {[1..k -> S] : k \in 0..n}

Range(s) == {s[i] : i \in DOMAIN s}

VARIABLES
  justification,              \* verify_justification: the CircuitJustification
  authority_set_id,           \* verify_justification: expected id
  current_authority_set_hash, \* verify_justification: expected commitment
  ancestry_map,               \* header hash -> parent hash (NoEntry: absent)
  signer_addresses,           \* pubkeys collected by the filter_map
  precommit_idx,              \* position of the precommits iterator
  current_hash,               \* confirm_ancestry's cursor
  num_matched_addresses,      \* the count handed to the supermajority rule
  pc,                         \* where the running function is
  child_hash,                 \* confirm_ancestry called on its own: child_hash
  root_hash,                  \* confirm_ancestry called on its own: root_hash
  hops,                       \* parent links confirm_ancestry has followed
  input,                      \* the arguments of a call of a pure function
  result                      \* what that call returned

vjVars == <<justification, authority_set_id, current_authority_set_hash,
            signer_addresses, precommit_idx, num_matched_addresses>>

caVars == <<child_hash, root_hash, hops>>

fnVars == <<input, result>>

vars == <<vjVars, ancestry_map, current_hash, pc, caVars, fnVars>>

None == "none"

\* The variables of verify_justification while another function runs.
VJIdle ==
  /\ justification = None
  /\ authority_set_id = 0
  /\ current_authority_set_hash = 0
  /\ signer_addresses = <<>>
  /\ precommit_idx = 1
  /\ num_matched_addresses = 0

CAIdle == child_hash = NoEntry /\ root_hash = NoEntry /\ hops = 0

FnIdle == input = None /\ result = None

(***************************************************************************)
(* Ed25519, abstractly: a signature is the pair of the key that produced   *)
(* it and the message it was produced over.                                *)
(***************************************************************************)
Sign(key, message) == [signer |-> key, message |-> message]

\* a verifier that swallows a failed verification
verify_signature_unchecked(pubkey_bytes, signed_message, signature) == TRUE

\* lib.rs 17-23. TRUE: returns; FALSE: panics (unwrap of try_from, or the
\* explicit panic!).
verify_signature(pubkey_bytes, signed_message, signature) ==
  /\ pubkey_bytes \in Keys
  /\ signature = Sign(pubkey_bytes, signed_message)

\* lib.rs 84-90: SCALE encoding of the tuple, a fixed-width concatenation.
SignedMessage(p, j) ==
  <<1, p.target_hash, p.target_number, j.round, j.authority_set_id>>

(***************************************************************************)
(* confirm_ancestry, lib.rs 26-41.  One evaluation of the loop head and    *)
(* body: either the loop exits (returning a value) or the cursor moves.    *)
(***************************************************************************)
\* a loop that looks the cursor up before it compares it with the root
AncestryStepLookupFirst(cur, root, map) ==
  IF map[cur] # NoEntry
    THEN [returned |-> FALSE, value |-> FALSE, current_hash |-> map[cur]]
    ELSE [returned |-> TRUE, value |-> cur = root, current_hash |-> cur]

AncestryStep(cur, root, map) ==
  IF cur = root
    THEN [returned |-> TRUE, value |-> TRUE, current_hash |-> cur]
    ELSE IF map[cur] # NoEntry
      THEN [returned |-> FALSE, value |-> FALSE, current_hash |-> map[cur]]
      ELSE [returned |-> TRUE, value |-> FALSE, current_hash |-> cur]

\* confirm_ancestry as a function: the loop run to its return.  Evaluated
\* only where the walk ends.
RECURSIVE confirm_ancestry(_, _, _)
confirm_ancestry(child, root, map) ==
  LET s == AncestryStep(child, root, map)
  IN IF s.returned THEN s.value
                   ELSE confirm_ancestry(s.current_hash, root, map)

(***************************************************************************)
(* is_signed_by_supermajority, lib.rs 44-46, on usize.  Without overflow   *)
(* checks the products wrap; with them an overflowing product panics.      *)
(***************************************************************************)
UsizeMod == 2 ^ UsizeBits

WrappingMul(a, b) == (a * b) % UsizeMod

MulOverflows(a, b) == a * b >= UsizeMod

is_signed_by_supermajority(num_signatures, validator_set_size) ==
  WrappingMul(num_signatures, 3) > WrappingMul(validator_set_size, 2)

(***************************************************************************)
(* verify_justification, lib.rs 50-118.                                    *)
(***************************************************************************)
\* An encoded header is <<parent hash, rest of the header>>: its first 32
\* bytes, and the others.  ShortHeader has fewer than 32 bytes.
ShortHeader == <<>>

\* lib.rs 69: encoded_header[0..32] is in range.
HasParentHash(encoded_header) == Len(encoded_header) >= 1

\* header_range::hash_encoded_header: a deterministic content hash of the
\* encoded header, collision-free: the hash names the header's content.
hash_encoded_header(encoded_header) ==
  Append(encoded_header[1], encoded_header[2])

\* The headers of the blocks ChildHash and GrandChildHash, and a header cut
\* short.
EncodedHeaders == {<<BlockHash, 1>>, <<ChildHash, 1>>, ShortHeader}

EmptyMap == [h \in Hashes |-> NoEntry]

\* lib.rs 65-75: collect() into a HashMap inserts in order, the last write
\* for a key wins.  Evaluated where every header has its 32 bytes of parent
\* hash; the unwrap of lib.rs 69 panics where one has not.
RECURSIVE BuildAncestryMap(_)
BuildAncestryMap(ancestries_encoded) ==
  IF ancestries_encoded = <<>>
    THEN EmptyMap
    ELSE LET n == Len(ancestries_encoded)
             encoded_header == ancestries_encoded[n]
             parent_hash == encoded_header[1]
             header_hash == hash_encoded_header(encoded_header)
         IN [BuildAncestryMap(SubSeq(ancestries_encoded, 1, n - 1))
               EXCEPT ![header_hash] = parent_hash]

\* a count without the filter on membership in the validator set
CountMatchedNoFilter(addresses, valset_pubkeys) == Len(addresses)

\* a count of the (address, validator) pairs that match
CountMatchedPairs(addresses, valset_pubkeys) ==
  Cardinality({<<i, e>> \in (DOMAIN addresses) \X (DOMAIN valset_pubkeys) :
                 valset_pubkeys[e] = addresses[i]})

\* lib.rs 108-111: filter(|x| valset_pubkeys.iter().any(..)).count()
CountMatched(addresses, valset_pubkeys) ==
  Cardinality({i \in DOMAIN addresses :
                 \E e \in DOMAIN valset_pubkeys : valset_pubkeys[e] = addresses[i]})

\* The precommits a justification of the given round and set id can list:
\* signed by its own key over the canonical message, one signed over the
\* message of another round, and one carrying a pubkey that is no curve point.
PrecommitChoices(round, set_id) ==
  LET msg(t, r) == <<1, t, 7, r, set_id>>
  IN    {[target_hash |-> t, target_number |-> 7, pubkey |-> k,
          signature |-> Sign(k, msg(t, round))] :
            t \in {BlockHash, ChildHash}, k \in Keys}
  \cup  {[target_hash |-> GrandChildHash, target_number |-> 7, pubkey |-> 2,
          signature |-> Sign(2, msg(GrandChildHash, round))]}
  \cup  {[target_hash |-> BlockHash, target_number |-> 7, pubkey |-> 1,
          signature |-> Sign(1, msg(BlockHash, r))] : r \in Rounds \ {round}}
  \cup  {[target_hash |-> ChildHash, target_number |-> 7, pubkey |-> InvalidKey,
          signature |-> Sign(InvalidKey, msg(ChildHash, round))]}

Justifications ==
  {[block_hash |-> BlockHash, round |-> 0, authority_set_id |-> 0,
    current_authority_set_hash |-> 0,
    precommits |-> ps, ancestries_encoded |-> hs, valset_pubkeys |-> vs] :
      ps \in SeqsUpTo(PrecommitChoices(0, 0), MaxPrecommits),
      hs \in SeqsUpTo(EncodedHeaders, MaxAncestries),
      vs \in SeqsUpTo(Keys, MaxValset)}

VJInit ==
  /\ justification \in Justifications
  /\ authority_set_id \in SetIds
  /\ current_authority_set_hash \in SetHashes
  /\ authority_set_id = 0 \/ current_authority_set_hash = 0
  /\ ancestry_map = EmptyMap
  /\ signer_addresses = <<>>
  /\ precommit_idx = 1
  /\ current_hash = NoEntry
  /\ num_matched_addresses = 0
  /\ pc = "start"
  /\ CAIdle
  /\ FnIdle

\* lib.rs 56-75: the two assert_eq! and the ancestry map.
VJCheckAuthoritySet ==
  /\ pc = "start"
  /\ IF justification.current_authority_set_hash # current_authority_set_hash
       THEN pc' = "panic_authority_set_hash" /\ UNCHANGED ancestry_map
       ELSE IF justification.authority_set_id # authority_set_id
         THEN pc' = "panic_authority_set_id" /\ UNCHANGED ancestry_map
         ELSE IF \E i \in DOMAIN justification.ancestries_encoded :
                    ~HasParentHash(justification.ancestries_encoded[i])
           THEN pc' = "panic_header" /\ UNCHANGED ancestry_map
           ELSE /\ ancestry_map' =
                     BuildAncestryMap(justification.ancestries_encoded)
                /\ pc' = "precommits"
  /\ UNCHANGED <<justification, authority_set_id, current_authority_set_hash,
                 signer_addresses, precommit_idx, current_hash,
                 num_matched_addresses, caVars, fnVars>>

\* lib.rs 81-97: the closure of filter_map up to the call of confirm_ancestry.
VJVerifyPrecommit ==
  /\ pc = "precommits"
  /\ precommit_idx <= Len(justification.precommits)
  /\ LET p == justification.precommits[precommit_idx]
     IN IF verify_signature(p.pubkey, SignedMessage(p, justification), p.signature)
          THEN pc' = "confirm_ancestry" /\ current_hash' = p.target_hash
          ELSE pc' = "panic_signature" /\ UNCHANGED current_hash
  /\ UNCHANGED <<justification, authority_set_id, current_authority_set_hash,
                 ancestry_map, signer_addresses, precommit_idx,
                 num_matched_addresses, caVars, fnVars>>

\* lib.rs 33-40 and 99-103: one turn of confirm_ancestry's loop; when it
\* returns, filter_map keeps the pubkey or drops it and the iterator advances.
VJConfirmAncestry ==
  /\ pc = "confirm_ancestry"
  /\ LET p == justification.precommits[precommit_idx]
         s == AncestryStep(current_hash, justification.block_hash, ancestry_map)
     IN IF s.returned
          THEN /\ signer_addresses' =
                    IF s.value THEN Append(signer_addresses, p.pubkey)
                               ELSE signer_addresses
               /\ precommit_idx' = precommit_idx + 1
               /\ pc' = "precommits"
               /\ UNCHANGED current_hash
          ELSE /\ current_hash' = s.current_hash
               /\ UNCHANGED <<signer_addresses, precommit_idx, pc>>
  /\ UNCHANGED <<justification, authority_set_id, current_authority_set_hash,
                 ancestry_map, num_matched_addresses, caVars, fnVars>>

\* lib.rs 108-117: the count and the final assert!.
VJCheckSupermajority ==
  /\ pc = "precommits"
  /\ precommit_idx > Len(justification.precommits)
  /\ num_matched_addresses' =
       CountMatched(signer_addresses, justification.valset_pubkeys)
  /\ pc' = IF is_signed_by_supermajority(num_matched_addresses',
                                         Len(justification.valset_pubkeys))
             THEN "accepted" ELSE "panic_supermajority"
  /\ UNCHANGED <<justification, authority_set_id, current_authority_set_hash,
                 ancestry_map, signer_addresses, precommit_idx, current_hash,
                 caVars, fnVars>>

VJNext ==
  \/ VJCheckAuthoritySet
  \/ VJVerifyPrecommit
  \/ VJConfirmAncestry
  \/ VJCheckSupermajority

SpecVJ == VJInit /\ [][VJNext]_vars

(***************************************************************************)
(* Properties of verify_justification.                                     *)
(***************************************************************************)
Panics == {"panic_authority_set_hash", "panic_authority_set_id",
           "panic_header", "panic_signature", "panic_supermajority"}

Returned == pc = "accepted" \/ pc \in Panics

\* The hashes reached from the hashes of S by zero or more parent links.
RECURSIVE ReachedFrom(_, _)
ReachedFrom(S, map) ==
  LET T == S \cup ({map[x] : x \in S} \ {NoEntry})
  IN IF T = S THEN S ELSE ReachedFrom(T, map)

\* The listed headers that have their 32 bytes of parent hash.
HeadersWithParent(j) ==
  {j.ancestries_encoded[i] : i \in DOMAIN j.ancestries_encoded} \ {ShortHeader}

\* The parent links the listed headers state: hash of a header -> parent.
ParentLinks(j) ==
  [h \in Hashes |->
     IF \E hd \in HeadersWithParent(j) : Append(hd[1], hd[2]) = h
       THEN (CHOOSE hd \in HeadersWithParent(j) : Append(hd[1], hd[2]) = h)[1]
       ELSE NoEntry]

AncestryConfirmed(p, j) ==
  j.block_hash \in ReachedFrom({p.target_hash}, ParentLinks(j))

\* The signature is one by the precommit's own (valid) key over
\* 0x01 ++ target_hash ++ target_number ++ round ++ authority_set_id.
ValidlySigned(p, j) ==
  /\ p.pubkey # InvalidKey
  /\ p.signature.signer = p.pubkey
  /\ p.signature.message[1] = 1
  /\ p.signature.message[2] = p.target_hash
  /\ p.signature.message[3] = p.target_number
  /\ p.signature.message[4] = j.round
  /\ p.signature.message[5] = j.authority_set_id

\* The precommits (by position) that are ancestry-confirmed and whose pubkey
\* is a member of valset_pubkeys.
CountingPrecommits(j) ==
  {i \in DOMAIN j.precommits :
     /\ AncestryConfirmed(j.precommits[i], j)
     /\ j.precommits[i].pubkey \in Range(j.valset_pubkeys)}

AcceptCondition(j, id, hash) ==
  /\ j.current_authority_set_hash = hash
  /\ j.authority_set_id = id
  /\ \A i \in DOMAIN j.precommits : ValidlySigned(j.precommits[i], j)
  /\ 3 * Cardinality(CountingPrecommits(j)) > 2 * Len(j.valset_pubkeys)

RemoveAt(s, i) == SubSeq(s, 1, i - 1) \o SubSeq(s, i + 1, Len(s))

WithoutPrecommit(j, i) == [j EXCEPT !.precommits = RemoveAt(j.precommits, i)]

\* The validators of valset_pubkeys with a validly signed, ancestry-confirmed
\* precommit.
DistinctConfirmedSigners(j) ==
  {k \in Range(j.valset_pubkeys) :
     \E i \in DOMAIN j.precommits :
        /\ j.precommits[i].pubkey = k
        /\ ValidlySigned(j.precommits[i], j)
        /\ AncestryConfirmed(j.precommits[i], j)}

PairwiseDistinct(s) == \A a, b \in DOMAIN s : a # b => s[a] # s[b]

\* C1: an accepted justification with pairwise distinct valset_pubkeys has
\* validly signed, ancestry-confirmed precommits of strictly more than two
\* thirds of the validators, counted without repetition.
C1_DistinctSupermajority ==
  (pc = "accepted" /\ PairwiseDistinct(justification.valset_pubkeys))
    => 3 * Cardinality(DistinctConfirmedSigners(justification))
         > 2 * Len(justification.valset_pubkeys)

\* Every listed encoded header has the 32 bytes of its parent hash.
HeadersHaveParent(j) ==
  \A i \in DOMAIN j.ancestries_encoded : Len(j.ancestries_encoded[i]) >= 1

\* Taking away a precommit that is not ancestry-confirmed or not by a member
\* of valset_pubkeys leaves a justification that meets the condition: that
\* precommit did not turn a rejection into the acceptance.
AcceptedWithoutTheIdle(j, id, hash) ==
  \A i \in DOMAIN j.precommits :
     i \notin CountingPrecommits(j)
       => AcceptCondition(WithoutPrecommit(j, i), id, hash)

\* C2, as stated: the call accepts if and only if the commitment matches, the
\* set id matches, every listed precommit is validly signed, and 3 * c >
\* 2 * len(valset_pubkeys) with c the number of ancestry-confirmed precommits
\* whose pubkey is in valset_pubkeys; in every other case it fails.
C2_AcceptIffFour ==
  /\ Returned =>
       (pc = "accepted"
          <=> AcceptCondition(justification, authority_set_id,
                              current_authority_set_hash))
  /\ pc = "accepted" =>
       AcceptedWithoutTheIdle(justification, authority_set_id,
                              current_authority_set_hash)

\* C2, amended: the same with a fifth condition, that every listed encoded
\* header has at least 32 bytes.
C2_AcceptIff ==
  /\ Returned =>
       (pc = "accepted"
          <=> /\ HeadersHaveParent(justification)
              /\ AcceptCondition(justification, authority_set_id,
                                 current_authority_set_hash))
  /\ pc = "accepted" =>
       AcceptedWithoutTheIdle(justification, authority_set_id,
                              current_authority_set_hash)

\* An accepted justification listing a precommit that does not count.
C2_Witness ==
  /\ pc = "accepted"
  /\ \E i \in CountingPrecommits(justification) :
        justification.precommits[i].target_hash = GrandChildHash
  /\ \E i \in DOMAIN justification.precommits :
        i \notin CountingPrecommits(justification)

SomeSignatureInvalid(j) ==
  \E i \in DOMAIN j.precommits : ~ValidlySigned(j.precommits[i], j)

\* C3: a justification listing a precommit whose signature does not verify
\* (or whose pubkey is no valid key) is never accepted and never gets to the
\* supermajority rule: the call fails, on that signature unless an earlier
\* check (authority set, header length) has failed already, also when the
\* other precommits satisfy the supermajority rule.
C3_BadSignatureFails ==
  SomeSignatureInvalid(justification) =>
    /\ pc # "accepted"
    /\ pc # "panic_supermajority"
    /\ (pc # "start" /\ pc # "panic_signature") =>
         \/ justification.current_authority_set_hash # current_authority_set_hash
         \/ justification.authority_set_id # authority_set_id
         \/ ~HeadersHaveParent(justification)
         \/ /\ pc \in {"precommits", "confirm_ancestry"}
            /\ \E i \in precommit_idx..Len(justification.precommits) :
                  ~ValidlySigned(justification.precommits[i], justification)
            /\ \A i \in 1..(precommit_idx - 1) :
                  ValidlySigned(justification.precommits[i], justification)

\* The call failed on a precommit that does not count (its signer is outside
\* the validator set) while the other precommits meet the supermajority.
C3_Witness ==
  /\ pc = "panic_signature"
  /\ \E i \in DOMAIN justification.precommits :
        /\ ~ValidlySigned(justification.precommits[i], justification)
        /\ justification.precommits[i].pubkey
             \notin Range(justification.valset_pubkeys)
        /\ AcceptCondition(WithoutPrecommit(justification, i),
                           authority_set_id, current_authority_set_hash)

Counted == pc = "accepted" \/ pc = "panic_supermajority"

HasDuplicate(s) == ~PairwiseDistinct(s)

\* The only precommit is validly signed and ancestry-confirmed, and its key
\* is listed twice in valset_pubkeys.
LoneVoteOfDuplicatedKey(j) ==
  /\ Len(j.precommits) = 1
  /\ ValidlySigned(j.precommits[1], j)
  /\ AncestryConfirmed(j.precommits[1], j)
  /\ \E a, b \in DOMAIN j.valset_pubkeys :
        a # b /\ j.valset_pubkeys[a] = j.precommits[1].pubkey
              /\ j.valset_pubkeys[b] = j.precommits[1].pubkey

\* C10, as stated: the lone vote of a key listed twice in valset_pubkeys adds
\* more than one to the matched-signer count.
C10_DoubleCounted ==
  (Counted /\ LoneVoteOfDuplicatedKey(justification))
    => num_matched_addresses > 1

\* C10, amended: whatever valset_pubkeys repeats, every collected signer adds
\* one to the matched-signer count if its key is in valset_pubkeys and nothing
\* otherwise, so the count never exceeds the number of precommits.
C10_CountedOnce ==
  Counted =>
    /\ num_matched_addresses =
         Cardinality({i \in DOMAIN signer_addresses :
                        signer_addresses[i] \in Range(justification.valset_pubkeys)})
    /\ num_matched_addresses <= Len(justification.precommits)

C10_Witness ==
  /\ Counted
  /\ LoneVoteOfDuplicatedKey(justification)
  /\ num_matched_addresses = 1

(***************************************************************************)
(* confirm_ancestry called on its own, on any map over 0..MaxHash.         *)
(***************************************************************************)
CAHashes == {<<i>> : i \in 0..MaxHash}

CAInit ==
  /\ ancestry_map \in [CAHashes -> CAHashes \cup {NoEntry}]
  /\ child_hash \in CAHashes
  /\ root_hash \in CAHashes
  /\ current_hash = child_hash
  /\ hops = 0
  /\ pc = "loop"
  /\ VJIdle
  /\ FnIdle

\* The links followed after one more: counted up to MaxHash + 1, more than
\* a walk without a repeated hash can follow; past that only the turns of
\* the loop are told apart.
NextHops(n) ==
  IF n <= MaxHash THEN n + 1
  ELSE IF n = MaxHash + 1 THEN MaxHash + 2
  ELSE MaxHash + 1

\* lib.rs 33-40: one turn of the loop.
CAStep ==
  /\ pc = "loop"
  /\ LET s == AncestryStep(current_hash, root_hash, ancestry_map)
     IN IF s.returned
          THEN /\ pc' = IF s.value THEN "return_true" ELSE "return_false"
               /\ UNCHANGED <<current_hash, hops>>
          ELSE /\ current_hash' = s.current_hash
               /\ hops' = NextHops(hops)
               /\ UNCHANGED pc
  /\ UNCHANGED <<vjVars, ancestry_map, child_hash, root_hash, fnVars>>

CANext == CAStep

SpecCA == CAInit /\ [][CANext]_vars

\* The function runs on one thread and nothing suspends it: a step that can
\* be taken is taken.
FairSpecCA == SpecCA /\ WF_vars(CANext)

CAReturned == pc = "return_true" \/ pc = "return_false"

Entries(map) == {x \in DOMAIN map : map[x] # NoEntry}

\* No hash is reached from its own parent.
Acyclic(map) ==
  \A x \in Entries(map) : x \notin ReachedFrom({map[x]}, map)

WithoutEntry(map, x) == [map EXCEPT ![x] = NoEntry]

\* C5: on a map without cycles the walk follows at most one link per entry,
\* so it ends; it returns true exactly when root is reached from child by
\* zero or more parent links, and false on the first hash that differs from
\* root and has no entry; confirm_ancestry(root, root, map) is true after
\* zero hops; and with the entry of any hash on the path before root removed
\* the result is false.
C5_ConfirmAncestry ==
  Acyclic(ancestry_map) =>
    /\ hops <= Cardinality(Entries(ancestry_map))
    /\ pc = "return_true" =>
         /\ root_hash \in ReachedFrom({child_hash}, ancestry_map)
         /\ current_hash = root_hash
         /\ \A x \in ReachedFrom({child_hash}, WithoutEntry(ancestry_map, root_hash)) \ {root_hash} :
               ~confirm_ancestry(child_hash, root_hash, WithoutEntry(ancestry_map, x))
    /\ pc = "return_false" =>
         /\ root_hash \notin ReachedFrom({child_hash}, ancestry_map)
         /\ current_hash # root_hash
         /\ ancestry_map[current_hash] = NoEntry
    /\ (CAReturned /\ child_hash = root_hash) => (pc = "return_true" /\ hops = 0)

\* A chain child -> B -> C -> root walked to the root.
C5_Witness ==
  /\ Acyclic(ancestry_map)
  /\ pc = "return_true"
  /\ hops = 3

\* C6: confirm_ancestry returns, whatever the child, the root and the map.
C6_Terminates == <>CAReturned

(***************************************************************************)
(* is_signed_by_supermajority called on any two usize values.              *)
(***************************************************************************)
Usize == 0..(UsizeMod - 1)

SMInit ==
  /\ input \in [num_signatures : Usize, validator_set_size : Usize]
  /\ result = None
  /\ pc = "call"
  /\ VJIdle
  /\ CAIdle
  /\ ancestry_map = None
  /\ current_hash = NoEntry

\* lib.rs 45 built without overflow checks (the release profile).
SMCallWrapping ==
  /\ pc = "call"
  /\ result' = is_signed_by_supermajority(input.num_signatures,
                                          input.validator_set_size)
  /\ pc' = "returned"
  /\ UNCHANGED <<vjVars, ancestry_map, current_hash, caVars, input>>

\* lib.rs 45 built with overflow checks (the dev and test profiles): an
\* overflowing product panics.
SMCallChecked ==
  /\ pc = "call"
  /\ IF \/ MulOverflows(input.num_signatures, 3)
        \/ MulOverflows(input.validator_set_size, 2)
       THEN pc' = "panic_overflow" /\ UNCHANGED result
       ELSE /\ result' = (input.num_signatures * 3 > input.validator_set_size * 2)
            /\ pc' = "returned"
  /\ UNCHANGED <<vjVars, ancestry_map, current_hash, caVars, input>>

SMNext == SMCallWrapping \/ SMCallChecked

SpecSM == SMInit /\ [][SMNext]_vars

\* C4: for every two usize values the call returns, without an error, and
\* returns true exactly when 3 * n > 2 * m as mathematical integers.
C4_SupermajorityExact ==
  pc # "call" =>
    /\ pc = "returned"
    /\ result = (3 * input.num_signatures > 2 * input.validator_set_size)

(***************************************************************************)
(* The variables of verify_justification and confirm_ancestry while a pure *)
(* function is called.                                                     *)
(***************************************************************************)
FnInit ==
  /\ result = None
  /\ pc = "call"
  /\ VJIdle
  /\ CAIdle
  /\ ancestry_map = None
  /\ current_hash = NoEntry

fnFrame == <<vjVars, ancestry_map, current_hash, caVars, input>>

(***************************************************************************)
(* compute_authority_set_commitment, lib.rs 121-130.  A B256 is a string   *)
(* of one symbol; SHA-256 is collision-free: a digest is the one-symbol    *)
(* string that names its preimage.                                         *)
(***************************************************************************)
Sha256(bytes) == <<bytes>>

\* the four public keys the lists are made of
ACKeys == {<<1>>, <<2>>, <<3>>, <<4>>}

\* a loop body that hashes the key without the commitment so far
CommitStepKeyOnly(commitment_so_far, pubkey) == Sha256(pubkey)

\* lib.rs 124-127: the loop body.
CommitStep(commitment_so_far, pubkey) == Sha256(commitment_so_far \o pubkey)

\* lib.rs 123-128: the loop over pubkeys.iter().skip(1); i is the position
\* of the iterator.
RECURSIVE CommitLoop(_, _, _)
CommitLoop(commitment_so_far, pubkeys, i) ==
  IF i > Len(pubkeys)
    THEN commitment_so_far
    ELSE CommitLoop(CommitStep(commitment_so_far, pubkeys[i]), pubkeys, i + 1)

\* lib.rs 121-130.  pubkeys[0] of an empty slice panics.
compute_authority_set_commitment(pubkeys) ==
  IF Len(pubkeys) = 0
    THEN [panicked |-> TRUE]
    ELSE [panicked |-> FALSE,
          value |-> CommitLoop(Sha256(pubkeys[1]), pubkeys, 2)]

ACInit ==
  /\ input \in [pubkeys : SeqsUpTo(ACKeys, MaxPubkeys)]
  /\ FnInit

ACCall ==
  /\ pc = "call"
  /\ LET r == compute_authority_set_commitment(input.pubkeys)
     IN IF r.panicked
          THEN pc' = "panic_index" /\ UNCHANGED result
          ELSE pc' = "returned" /\ result' = r.value
  /\ UNCHANGED fnFrame

ACNext == ACCall

SpecAC == ACInit /\ [][ACNext]_vars

\* acc_0 = H(k_0), acc_i = H(acc_(i-1) || k_i), for the keys k_0 .. k_(n-1)
\* held at positions 1 .. n.
RECURSIVE Acc(_, _)
Acc(keys, i) ==
  IF i = 1 THEN Sha256(keys[1])
           ELSE Sha256(Acc(keys, i - 1) \o keys[i])

Swapped(keys, a, b) ==
  [i \in DOMAIN keys |-> IF i = a THEN keys[b] ELSE IF i = b THEN keys[a] ELSE keys[i]]

\* C7: on a non-empty list the call returns acc_(n-1) of the left fold (H(k)
\* for the single key k), the list with two distinct keys swapped gives
\* another commitment, and on the empty list the call fails.
C7_CommitmentFold ==
  /\ pc = "returned" =>
       /\ input.pubkeys # <<>>
       /\ result = Acc(input.pubkeys, Len(input.pubkeys))
       /\ Len(input.pubkeys) = 1 => result = Sha256(input.pubkeys[1])
       /\ \A a, b \in DOMAIN input.pubkeys :
             input.pubkeys[a] # input.pubkeys[b] =>
               LET other == compute_authority_set_commitment(
                              Swapped(input.pubkeys, a, b))
               IN ~other.panicked /\ other.value # result
  /\ (pc # "call" /\ input.pubkeys = <<>>) => pc = "panic_index"

\* A commitment of three keys, two of them distinct.
C7_Witness ==
  /\ pc = "returned"
  /\ Len(input.pubkeys) = 3
  /\ input.pubkeys[1] # input.pubkeys[3]

(***************************************************************************)
(* verify_encoded_validators, lib.rs 166-180.  Bytes are 0..255; a slice   *)
(* header_bytes[a..b] is SubSeq(header_bytes, a + 1, b).                   *)
(***************************************************************************)
\* consts::PUBKEY_LENGTH and consts::VALIDATOR_LENGTH
PUBKEY_LENGTH == 32
VALIDATOR_LENGTH == 40

\* header_bytes[a..b]; an index past the end (or a > b) panics.
SliceInRange(bytes, a, b) == a <= b /\ b <= Len(bytes)

Slice(bytes, a, b) == SubSeq(bytes, a + 1, b)

\* a check of the first weight byte alone
WeightIsOneFirstByte(extracted_weight) ==
  Len(extracted_weight) > 0 /\ extracted_weight[1] = 1

\* lib.rs 175: assert_eq!(extracted_weight, &[1u8, 0, 0, 0, 0, 0, 0, 0])
WeightIsOne(extracted_weight) == extracted_weight = <<1, 0, 0, 0, 0, 0, 0, 0>>

\* lib.rs 168-180: the loop from position i of pubkeys, then the delay.
RECURSIVE EncodedValidatorsLoop(_, _, _, _)
EncodedValidatorsLoop(header_bytes, cursor, pubkeys, i) ==
  IF i > Len(pubkeys)
    THEN IF ~SliceInRange(header_bytes, cursor, cursor + 4)
           THEN "panic_slice"
           ELSE IF Slice(header_bytes, cursor, cursor + 4) = <<0, 0, 0, 0>>
             THEN "pass"
             ELSE "panic_delay"
    ELSE IF ~SliceInRange(header_bytes, cursor, cursor + PUBKEY_LENGTH)
      THEN "panic_slice"
      ELSE IF PUBKEY_LENGTH # 32
        THEN "panic_from_slice"
        ELSE IF Slice(header_bytes, cursor, cursor + PUBKEY_LENGTH) # pubkeys[i]
          THEN "panic_pubkey"
          ELSE IF ~SliceInRange(header_bytes, cursor + PUBKEY_LENGTH,
                                cursor + VALIDATOR_LENGTH)
            THEN "panic_slice"
            ELSE IF ~WeightIsOne(Slice(header_bytes, cursor + PUBKEY_LENGTH,
                                       cursor + VALIDATOR_LENGTH))
              THEN "panic_weight"
              ELSE EncodedValidatorsLoop(header_bytes, cursor + VALIDATOR_LENGTH,
                                         pubkeys, i + 1)

verify_encoded_validators(header_bytes, start_cursor, pubkeys) ==
  EncodedValidatorsLoop(header_bytes, start_cursor, pubkeys, 1)

\* The 32-byte key made of the byte b.
Key32(b) == [i \in 1..32 |-> b]

EVKeys == {Key32(0), Key32(1)}

\* The bytes of a well-formed validator list: key and weight 1 of every
\* validator, then the delay 0.
RECURSIVE EncodedValidators(_)
EncodedValidators(keys) ==
  IF keys = <<>>
    THEN <<0, 0, 0, 0>>
    ELSE Head(keys) \o <<1, 0, 0, 0, 0, 0, 0, 0>> \o EncodedValidators(Tail(keys))

\* The header regions tried: one byte before a well-formed list, then the
\* list; the same with one byte changed; the same cut short.
HeaderChoices(keys) ==
  LET base == <<9>> \o EncodedValidators(keys)
  IN    {base}
  \cup  {[base EXCEPT ![pos] = b] : pos \in DOMAIN base, b \in {0, 1, 2}}
  \cup  {SubSeq(base, 1, n) : n \in 0..Len(base)}

EVInit ==
  /\ \E keys \in SeqsUpTo(EVKeys, MaxValidators) :
        input \in [header_bytes : HeaderChoices(keys),
                   start_cursor : 0..2,
                   pubkeys : SeqsUpTo(EVKeys, MaxValidators)]
  /\ FnInit

EVCall ==
  /\ pc = "call"
  /\ result' = verify_encoded_validators(input.header_bytes, input.start_cursor,
                                         input.pubkeys)
  /\ pc' = IF result' = "pass" THEN "returned" ELSE "panicked"
  /\ UNCHANGED fnFrame

EVNext == EVCall

SpecEV == EVInit /\ [][EVNext]_vars

\* The n bytes of bytes from offset at on (offsets count from 0), if they
\* are all there.
HasBytes(bytes, at, n) == at + n <= Len(bytes)

ByteAt(bytes, at) == bytes[at + 1]

\* Record i (from 0) holds the key and the weight 1, little-endian in 8 bytes.
RecordMatches(bytes, start, i, key) ==
  LET at == start + i * (32 + 8)
  IN /\ HasBytes(bytes, at, 32 + 8)
     /\ \A k \in 0..31 : ByteAt(bytes, at + k) = key[k + 1]
     /\ ByteAt(bytes, at + 32) = 1
     /\ \A k \in 1..7 : ByteAt(bytes, at + 32 + k) = 0

DelayIsZero(bytes, start, n) ==
  LET at == start + n * (32 + 8)
  IN /\ HasBytes(bytes, at, 4)
     /\ \A k \in 0..3 : ByteAt(bytes, at + k) = 0

\* C8: the call passes if and only if every record i holds pubkeys[i] and
\* the weight 1 and the 4 bytes after the last record are zero; anything
\* else, also a field past the end of header_bytes, makes it fail.
C8_EncodedValidators ==
  pc # "call" =>
    /\ pc = "returned" <=>
         /\ \A i \in DOMAIN input.pubkeys :
               RecordMatches(input.header_bytes, input.start_cursor, i - 1,
                             input.pubkeys[i])
         /\ DelayIsZero(input.header_bytes, input.start_cursor,
                        Len(input.pubkeys))
    /\ pc \in {"returned", "panicked"}

\* Two validators checked and passed.
C8_Witness ==
  /\ pc = "returned"
  /\ Len(input.pubkeys) = 2

(***************************************************************************)
(* decode_scale_compact_int, lib.rs 159-163, on the SCALE compact encoding *)
(* of u32 values (the test at lib.rs 193-212).  An unsigned integer is the *)
(* sequence of its bytes, least significant first; a u32 has 4 and a u64   *)
(* has 8.                                                                  *)
(***************************************************************************)
\* the bytes the u32 values tried are made of
ByteSample == {0, 1, 63, 64, 127, 128, 255}

\* value as uN: zero-extended (or truncated) to n bytes
AsWidth(bytes, n) ==
  [i \in 1..n |-> IF i <= Len(bytes) THEN bytes[i] ELSE 0]

\* bytes << 2 and bytes >> 2 in the width of bytes
Shl2(bytes) ==
  [i \in DOMAIN bytes |->
     ((bytes[i] * 4) % 256) + (IF i > 1 THEN bytes[i - 1] \div 64 ELSE 0)]

Shr2(bytes) ==
  [i \in DOMAIN bytes |->
     (bytes[i] \div 4) + (IF i < Len(bytes) THEN (bytes[i + 1] % 4) * 64 ELSE 0)]

\* -1, 0, 1 as a < b, a = b, a > b, for two integers of the same width
RECURSIVE CompareFrom(_, _, _)
CompareFrom(a, b, i) ==
  IF i = 0 THEN 0
  ELSE IF a[i] < b[i] THEN -1
  ELSE IF a[i] > b[i] THEN 1
  ELSE CompareFrom(a, b, i - 1)

Leq(a, b) == CompareFrom(a, b, Len(a)) <= 0

Gt(a, b) == CompareFrom(a, b, Len(a)) > 0

\* 0b0011_1111, 0b0011_1111_1111_1111 and u32::MAX >> 2, in n bytes
Max6Bit(n) == AsWidth(<<63>>, n)
Max14Bit(n) == AsWidth(<<255, 63>>, n)
Max30Bit(n) == AsWidth(<<255, 255, 255, 63>>, n)

\* Compact(num).encode() for a u32 (lib.rs 206): the single-byte, two-byte,
\* four-byte and length-prefixed forms of the codec.
CompactU32Encode(num) ==
  IF Leq(num, Max6Bit(4))
    THEN SubSeq(Shl2(num), 1, 1)
    ELSE IF Leq(num, Max14Bit(4))
      THEN LET x == SubSeq(Shl2(num), 1, 2) IN [x EXCEPT ![1] = @ + 1]
      ELSE IF Leq(num, Max30Bit(4))
        THEN LET x == Shl2(num) IN [x EXCEPT ![1] = @ + 2]
        ELSE <<3>> \o num

Fail == [err |-> TRUE]

Ok(value) == [err |-> FALSE, value |-> value]

\* Compact::<u64>::decode (lib.rs 160): the prefix byte selects the form;
\* a value that a shorter form holds, and a truncated input, are errors.
CompactU64Decode(bytes) ==
  IF Len(bytes) = 0 THEN Fail
  ELSE LET prefix == bytes[1]
           mode == prefix % 4
       IN CASE mode = 0 -> Ok(AsWidth(<<prefix \div 4>>, 8))
            [] mode = 1 ->
                 IF Len(bytes) < 2 THEN Fail
                 ELSE LET x == Shr2(SubSeq(bytes, 1, 2))
                      IN IF Gt(x, Max6Bit(2)) /\ Leq(x, Max14Bit(2))
                           THEN Ok(AsWidth(x, 8)) ELSE Fail
            [] mode = 2 ->
                 IF Len(bytes) < 4 THEN Fail
                 ELSE LET x == Shr2(SubSeq(bytes, 1, 4))
                      IN IF Gt(x, Max14Bit(4)) /\ Leq(x, Max30Bit(4))
                           THEN Ok(AsWidth(x, 8)) ELSE Fail
            [] mode = 3 ->
                 LET bytes_needed == (prefix \div 4) + 4
                 IN IF bytes_needed > 8 THEN Fail
                    ELSE IF Len(bytes) < 1 + bytes_needed THEN Fail
                    ELSE LET x == SubSeq(bytes, 2, 1 + bytes_needed)
                         IN IF bytes_needed = 4
                              THEN IF Gt(x, Max30Bit(4))
                                     THEN Ok(AsWidth(x, 8)) ELSE Fail
                              ELSE IF x[bytes_needed] # 0
                                     THEN Ok(AsWidth(x, 8)) ELSE Fail

\* the number of bytes of value up to its most significant nonzero byte
RECURSIVE SignificantBytes(_, _)
SignificantBytes(value, i) ==
  IF i = 0 THEN 0
  ELSE IF value[i] # 0 THEN i
  ELSE SignificantBytes(value, i - 1)

\* an encoded size that forgets the prefix byte of the length-prefixed form
CompactU64LenNoPrefix(value) ==
  IF Leq(value, Max6Bit(8)) THEN 1
  ELSE IF Leq(value, Max14Bit(8)) THEN 2
  ELSE IF Leq(value, Max30Bit(8)) THEN 4
  ELSE SignificantBytes(value, 8)

\* value.encoded_size() of a Compact<u64> (lib.rs 162)
CompactU64Len(value) ==
  IF Leq(value, Max6Bit(8)) THEN 1
  ELSE IF Leq(value, Max14Bit(8)) THEN 2
  ELSE IF Leq(value, Max30Bit(8)) THEN 4
  ELSE SignificantBytes(value, 8) + 1

\* lib.rs 159-163.  expect() panics on a decoding error.
decode_scale_compact_int(bytes) ==
  LET value == CompactU64Decode(bytes)
  IN IF value.err
       THEN [panicked |-> TRUE]
       ELSE [panicked |-> FALSE, value |-> value.value,
             size |-> CompactU64Len(value.value)]

\* lib.rs 194-209: a u32 and its compact encoding.
CIInit ==
  /\ \E num \in [1..4 -> ByteSample] :
        input = [num |-> num, bytes |-> CompactU32Encode(num)]
  /\ FnInit

CICall ==
  /\ pc = "call"
  /\ LET r == decode_scale_compact_int(input.bytes)
     IN IF r.panicked
          THEN pc' = "panicked" /\ UNCHANGED result
          ELSE pc' = "returned" /\ result' = [value |-> r.value, size |-> r.size]
  /\ UNCHANGED fnFrame

CINext == CICall

SpecCI == CIInit /\ [][CINext]_vars

\* The u32 is below 2^30, and then its value as a number.
Below2To30(num) == num[4] <= 63

Number(num) == num[1] + 256 * num[2] + 65536 * num[3] + 16777216 * num[4]

\* The documented size classes of the compact encoding.
SizeClass(num) ==
  IF ~Below2To30(num) THEN 5
  ELSE IF Number(num) <= 63 THEN 1
  ELSE IF Number(num) <= 16383 THEN 2
  ELSE 4

\* C9: decoding the compact encoding of a u32 v returns v as u64 and the
\* length of the encoding, which is 1, 2, 4 or 5 bytes by the size class
\* of v.
C9_CompactRoundTrip ==
  pc # "call" =>
    /\ pc = "returned"
    /\ result.value = input.num \o <<0, 0, 0, 0>>
    /\ result.size = Len(input.bytes)
    /\ result.size = SizeClass(input.num)

\* 1073741824, the first value of the length-prefixed form, decoded.
C9_Witness ==
  /\ pc = "returned"
  /\ input.num = <<0, 0, 0, 64>>
  /\ result.size = 5

====
